---- MODULE Spec2Model ----
(***************************************************************************)
(* Remote-desktop streaming relay and its browser-side session manager.    *)
(*                                                                         *)
(*   relay : class VNCWebSocketServer (src/src/utils/vnc-websocket-server.ts,*)
(*           the vncClients variant, lines 64-269)                         *)
(*   hook  : useVNCWebSocket (src/src/components/VNCViewer.tsx, 286-452)   *)
(*   client: class VNCClient (src/src/utils/vnc-client.ts)                 *)
(*                                                                         *)
(* Each component is a state machine of its own: Spec runs the relay on    *)
(* one socket, IsoSpec runs it on several sockets and with its close(),    *)
(* HookSpec runs the hook, ClientSpec the class.  JavaScript runs every    *)
(* callback to completion, so one action is one callback (or one           *)
(* resumption after an await).                                             *)
(***************************************************************************)
EXTENDS Integers, Sequences, FiniteSets, TLC

(***************************************************************************)
(* Bounds of the model.                                                    *)
(***************************************************************************)
NumConns == 1       \* sockets the relay accepts
MaxMsgs == 3        \* client messages the relay receives, over all sockets
MaxTicks == 1       \* firings of update intervals, over all sockets
MaxSockets == 2     \* WebSocket objects of the hook alive at a time
MaxTimers == 2      \* reconnect timers of the hook pending at a time
IsoConns == 2       \* sockets the relay accepts when run with several sockets
IsoMsgs == 2        \* client messages it receives then, over all sockets
MaxClientSockets == 2  \* WebSocket objects of a VNCClient alive at a time

\* useVNCWebSocket: const maxReconnectAttempts = 5, and the 2000 of the delay.
maxReconnectAttempts == 5
ReconnectDelayUnit == 2000

Conns == 1..NumConns

\* The sockets of the relay run with several sockets, and every socket there is.
IsoConnSet == 1..IsoConns
AllConns == Conns \cup IsoConnSet

(***************************************************************************)
(* Relay state.                                                            *)
(***************************************************************************)
VARIABLES
    sock,        \* sock[c]: readyState of the accepted socket: "none" (not yet
                 \*   accepted), "open", "closing", "closed" (close emitted)
    vncClients,  \* vncClients[c]: the session registered for c, 0 when none;
                 \*   a session object is named by the index of the vnc_connect
                 \*   message whose handler created it
    timers,      \* timers[c]: sessions whose setInterval producer is active
    pending,     \* pending[c]: vnc_connect handlers suspended at
                 \*   `await vncClient.connect()`, by message index
    received,    \* received[c]: log of the messages that arrived on c
    forwarded,   \* forwarded[c]: log of the calls made on session backends
    outbox,      \* outbox[c]: log of the messages written to c's socket
    connectDone, \* connectDone[c]: vnc_connect handlers that ran to their end
    ticks,       \* interval firings so far
    serverClosed \* close() of the relay has been called

(***************************************************************************)
(* Hook state (useVNCWebSocket).                                           *)
(***************************************************************************)
VARIABLES
    isConnected, isStreaming,  \* useState
    connectionError,           \* useState: "null" or the error text
                               \*   (lastScreenUpdate, the fourth useState, only
                               \*   stores the data of vnc_screen_update and is
                               \*   read by nothing: it is left out)
    ws,                        \* ws.current: a socket, 0 for null
    readyState,                \* readyState[s] of every socket created so far
                               \*   ("NONE": not created yet)
    reconnectTimeout,          \* reconnectTimeout.current: a timer id, 0 unset,
                               \*   StaleHandle for a timer no longer pending
    reconnectAttempts,         \* reconnectAttempts.current
    reconnectTimers,           \* the setTimeout timers that have not fired and
                               \*   were not cleared, by id (time is not
                               \*   modelled: a pending timer may fire at any
                               \*   moment; its delay is kept in lastEvent)
    lastEvent,                 \* the callback that ran last and what it did
    closures,                  \* unplanned closures in a row, since the last
                               \*   switch to streaming or disconnect()
    manualDisc,                \* disconnect() was called, connect() not since
    exhausted                  \* a 6th closure in a row happened, no explicit
                               \*   connect() since

hookVars == <<isConnected, isStreaming, connectionError, ws,
              readyState, reconnectTimeout, reconnectAttempts, reconnectTimers,
              lastEvent, closures, manualDisc, exhausted>>

relayVars == <<sock, vncClients, timers, pending, received, forwarded, outbox,
               connectDone, ticks, serverClosed>>

(***************************************************************************)
(* VNCClient state (src/src/utils/vnc-client.ts).                          *)
(***************************************************************************)
VARIABLES
    config,      \* this.config, as far as the class reads it: password set or not
    state,       \* this.state: isConnected, isStreaming, isAuthenticated, error
    socket,      \* this.socket: a socket, 0 for null
    socketState, \* readyState of every socket the client created ("NONE": not
                 \*   created, or closed and no longer referred to)
    clientEvent  \* the callback that ran last and what it did

clientVars == <<config, state, socket, socketState, clientEvent>>

vars == <<relayVars, hookVars, clientVars>>

InputTypes == {"vnc_mouse_event", "vnc_keyboard_event"}
KnownTypes == {"vnc_connect", "vnc_request_screen"} \cup InputTypes
\* The types the environment sends: the four the relay knows and one it does not.
ClientTypes == KnownTypes \cup {"bogus"}

\* Payloads that are not a {type, data} envelope: text JSON.parse throws on,
\* the JSON text null (reading message.type throws a TypeError), and the JSON
\* text {} (message.type is undefined).
NotJSON == "not json"
JSONNull == "null"
JSONNoType == "{}"
MalformedPayloads == {NotJSON, JSONNull, JSONNoType}

\* What arrives on a socket: an envelope, named by its type, or a malformed
\* payload.
Payloads == ClientTypes \cup MalformedPayloads

\* message.type of a parsed payload, as the template string prints it.
MessageType(p) == IF p = JSONNoType THEN "undefined" ELSE p

RECURSIVE SumLen(_, _)
SumLen(f, S) ==
    IF S = {} THEN 0
    ELSE LET c == CHOOSE x \in S : TRUE IN Len(f[c]) + SumLen(f, S \ {c})

TotalReceived == SumLen(received, AllConns)

\* A message on the wire, server to client.  re: index of the client message it
\* answers (0: unsolicited); sid: the session that produced it (0: none);
\* text: the error text, as the pieces the template string concatenates.
Msg(type, re, sid, text) == [type |-> type, re |-> re, sid |-> sid, text |-> text]

\* mockUpdate of sendScreenUpdate: width: 100, height: 100,
\* data: new Uint8Array(30000).
MockUpdateWidth == 100
MockUpdateHeight == 100
MockUpdateBytes == 30000

\* screenData of handleVNCRequestScreen: width: 1024, height: 768, and the
\* 16 characters of data: 'mock_screen_data'.
ScreenDataWidth == 1024
ScreenDataHeight == 768
ScreenDataBytes == 16

\* The data of a vnc_screen_update, by its extent and the number of bytes of
\* its pixel payload.  JSON.stringify turns the Uint8Array into an object with
\* one entry per byte and the string into a string: what the client parses has
\* as many bytes as the relay put in.
MockUpdate ==
    [width |-> MockUpdateWidth, height |-> MockUpdateHeight, bytes |-> MockUpdateBytes]
ScreenData ==
    [width |-> ScreenDataWidth, height |-> ScreenDataHeight, bytes |-> ScreenDataBytes]

\* A vnc_screen_update on the wire: a message with its rectangle.
ScreenUpdate(re, sid, rect) ==
    [type |-> "vnc_screen_update", re |-> re, sid |-> sid, text |-> <<>>, data |-> rect]

\* sendMessage: writes only while readyState is OPEN, otherwise drops silently.
SendMessage(ob, c, m) == IF sock[c] = "open" THEN Append(ob, m) ELSE ob

\* sendError: an `error` envelope carrying the text.
SendError(ob, c, re, text) == SendMessage(ob, c, Msg("error", re, 0, text))

RelayInit ==
    /\ sock = [c \in AllConns |-> "none"]
    /\ vncClients = [c \in AllConns |-> 0]
    /\ timers = [c \in AllConns |-> {}]
    /\ pending = [c \in AllConns |-> {}]
    /\ received = [c \in AllConns |-> <<>>]
    /\ forwarded = [c \in AllConns |-> <<>>]
    /\ outbox = [c \in AllConns |-> <<>>]
    /\ connectDone = [c \in AllConns |-> {}]
    /\ ticks = 0
    /\ serverClosed = FALSE


\* A connection handler that sends no welcome message.
AcceptConnectionSilent(c) ==
    /\ ~serverClosed
    /\ sock[c] = "none"
    /\ \A d \in AllConns : d < c => sock[d] # "none"
    /\ sock' = [sock EXCEPT ![c] = "open"]
    /\ UNCHANGED <<vncClients, timers, pending, received, forwarded, outbox,
                   connectDone, ticks>>
    /\ UNCHANGED <<serverClosed, hookVars, clientVars>>

\* wss.on('connection'): registers the handlers and sends the welcome message.
AcceptConnection(c) ==
    /\ ~serverClosed
    /\ sock[c] = "none"
    /\ \A d \in AllConns : d < c => sock[d] # "none"   \* sockets are numbered as accepted
    /\ sock' = [sock EXCEPT ![c] = "open"]
    /\ outbox' = [outbox EXCEPT ![c] = Append(@, Msg("connected", 0, 0, <<>>))]
    /\ UNCHANGED <<vncClients, timers, pending, received, forwarded, connectDone, ticks>>
    /\ UNCHANGED <<serverClosed, hookVars, clientVars>>

\* sendScreenUpdate, the closure startScreenUpdates builds for session sid: it
\* writes while the registry has an entry for the socket (any entry) and
\* vncClient.isConnected, which the session object never clears.
SendScreenUpdate(ob, c, sid, registry) ==
    IF registry[c] # 0
    THEN SendMessage(ob, c, ScreenUpdate(0, sid, MockUpdate))
    ELSE ob

\* handleVNCConnect up to `await vncClient.connect()`: the session object is
\* built and the handler suspends; nothing is registered or sent yet.
HandleVNCConnect(c, idx) ==
    /\ pending' = [pending EXCEPT ![c] = @ \cup {idx}]
    /\ UNCHANGED <<sock, vncClients, timers, forwarded, outbox, connectDone, ticks>>

\* A handler that logs the event and never calls the session.
HandleVNCMouseEventLogOnly(c, idx) ==
    /\ IF vncClients[c] = 0
       THEN outbox' = [outbox EXCEPT ![c] =
                          SendError(@, c, idx, <<"Not connected to VNC">>)]
       ELSE UNCHANGED outbox
    /\ UNCHANGED <<sock, vncClients, timers, pending, forwarded, connectDone, ticks>>

\* handleVNCMouseEvent: no await before the forward, so it runs inside the
\* 'message' callback.
HandleVNCMouseEvent(c, idx) ==
    /\ IF vncClients[c] = 0
       THEN /\ outbox' = [outbox EXCEPT ![c] =
                            SendError(@, c, idx, <<"Not connected to VNC">>)]
            /\ UNCHANGED forwarded
       ELSE /\ forwarded' = [forwarded EXCEPT ![c] =
                  Append(@, [sid |-> vncClients[c], call |-> "sendMouseEvent", ev |-> idx])]
            /\ UNCHANGED outbox
    /\ UNCHANGED <<sock, vncClients, timers, pending, connectDone, ticks>>

\* A handler that calls the session without looking for it in the registry.
HandleVNCKeyboardEventNoCheck(c, idx) ==
    /\ forwarded' = [forwarded EXCEPT ![c] =
          Append(@, [sid |-> vncClients[c], call |-> "sendKeyboardEvent", ev |-> idx])]
    /\ UNCHANGED <<sock, vncClients, timers, pending, outbox, connectDone, ticks>>

\* handleVNCKeyboardEvent.
HandleVNCKeyboardEvent(c, idx) ==
    /\ IF vncClients[c] = 0
       THEN /\ outbox' = [outbox EXCEPT ![c] =
                            SendError(@, c, idx, <<"Not connected to VNC">>)]
            /\ UNCHANGED forwarded
       ELSE /\ forwarded' = [forwarded EXCEPT ![c] =
                  Append(@, [sid |-> vncClients[c], call |-> "sendKeyboardEvent", ev |-> idx])]
            /\ UNCHANGED outbox
    /\ UNCHANGED <<sock, vncClients, timers, pending, connectDone, ticks>>

\* A handler that answers without looking for the session in the registry.
HandleVNCRequestScreenNoCheck(c, idx) ==
    /\ outbox' = [outbox EXCEPT ![c] =
          SendMessage(@, c, ScreenUpdate(idx, vncClients[c], ScreenData))]
    /\ UNCHANGED <<sock, vncClients, timers, pending, forwarded, connectDone, ticks>>

\* A handler that sends the screen twice.
HandleVNCRequestScreenTwice(c, idx) ==
    /\ outbox' = [outbox EXCEPT ![c] =
          IF vncClients[c] = 0
          THEN SendError(@, c, idx, <<"Not connected to VNC">>)
          ELSE SendMessage(
                  SendMessage(@, c, ScreenUpdate(idx, vncClients[c], ScreenData)),
                  c, ScreenUpdate(idx, vncClients[c], ScreenData))]
    /\ UNCHANGED <<sock, vncClients, timers, pending, forwarded, connectDone, ticks>>

\* handleVNCRequestScreen.
HandleVNCRequestScreen(c, idx) ==
    /\ outbox' = [outbox EXCEPT ![c] =
          IF vncClients[c] = 0
          THEN SendError(@, c, idx, <<"Not connected to VNC">>)
          ELSE SendMessage(@, c, ScreenUpdate(idx, vncClients[c], ScreenData))]
    /\ UNCHANGED <<sock, vncClients, timers, pending, forwarded, connectDone, ticks>>

\* The text without the offending type.
UnknownTypeTextBare(t) == <<"Unknown message type">>

\* The text of the default branch: `Unknown message type: ${message.type}`.
UnknownTypeText(t) == <<"Unknown message type: ", t>>

\* handleMessage, default branch.
HandleUnknown(c, idx, t) ==
    /\ outbox' = [outbox EXCEPT ![c] = SendError(@, c, idx, UnknownTypeText(t))]
    /\ UNCHANGED <<sock, vncClients, timers, pending, forwarded, connectDone, ticks>>

\* handleMessage, catch block: reading message.type of null throws inside the
\* try, before any handler ran.
HandleThrown(c, idx) ==
    /\ outbox' = [outbox EXCEPT ![c] = SendError(@, c, idx, <<"Internal server error">>)]
    /\ UNCHANGED <<sock, vncClients, timers, pending, forwarded, connectDone, ticks>>

\* handleMessage: the switch on message.type.
HandleMessage(c, idx, p) ==
    CASE p = JSONNull -> HandleThrown(c, idx)
      [] p = "vnc_connect" -> HandleVNCConnect(c, idx)
      [] p = "vnc_mouse_event" -> HandleVNCMouseEvent(c, idx)
      [] p = "vnc_keyboard_event" -> HandleVNCKeyboardEvent(c, idx)
      [] p = "vnc_request_screen" -> HandleVNCRequestScreen(c, idx)
      [] OTHER -> HandleUnknown(c, idx, MessageType(p))

\* A catch block that only logs.
InvalidFormatDropped(ob, c, idx) == ob

\* ws.on('message'), catch block: JSON.parse threw.
InvalidFormat(ob, c, idx) == SendError(ob, c, idx, <<"Invalid message format">>)

\* ws.on('message'): the callback is async and the emitter does not wait for it,
\* so it starts for every message as the message arrives, whatever earlier
\* callbacks of the socket are still suspended.
OnMessage(c, p) ==
    /\ sock[c] = "open"
    /\ TotalReceived < MaxMsgs
    /\ received' = [received EXCEPT ![c] =
                       Append(@, [type |-> p, sess |-> vncClients[c]])]
    /\ IF p = NotJSON
       THEN /\ outbox' = [outbox EXCEPT ![c] = InvalidFormat(@, c, Len(received[c]) + 1)]
            /\ UNCHANGED <<sock, vncClients, timers, pending, forwarded, connectDone, ticks>>
       ELSE HandleMessage(c, Len(received[c]) + 1, p)
    /\ UNCHANGED <<serverClosed, hookVars, clientVars>>

\* A catch block that only logs.
ConnectFailedSilent(ob, c, h) == ob

\* A catch block that reports the failure as a generic error.
ConnectFailedGeneric(ob, c, h) == SendError(ob, c, h, <<"VNC connection failed">>)

\* handleVNCConnect, catch block: the reply to a backend that failed to open.
ConnectFailed(ob, c, h) ==
    SendMessage(ob, c, Msg("vnc_error", h, 0, <<"VNC connection failed">>))

\* handleVNCConnect after `await vncClient.connect()`.  The stub in the source
\* resolves after a one-second timer, so the suspended handlers of a socket
\* resume in the order they were suspended; the stub always resolves, a backend
\* put in its place may reject, which the catch block is there for (ok).  On
\* success: register, reply, startScreenUpdates (first update, setInterval, and
\* a 'close' listener that clears the interval, which only runs if 'close' has
\* not been emitted yet).
HandleVNCConnectResume(c, h, ok) ==
    /\ h \in pending[c]
    /\ \A g \in pending[c] : h <= g
    /\ pending' = [pending EXCEPT ![c] = @ \ {h}]
    /\ connectDone' = [connectDone EXCEPT ![c] =
                          @ \cup {[idx |-> h, wasOpen |-> sock[c] = "open", ok |-> ok]}]
    /\ IF ok
       THEN /\ vncClients' = [vncClients EXCEPT ![c] = h]
            /\ outbox' = [outbox EXCEPT ![c] =
                  SendScreenUpdate(
                      SendMessage(@, c, Msg("vnc_connected", h, h, <<>>)),
                      c, h, vncClients')]
            /\ timers' = [timers EXCEPT ![c] = @ \cup {h}]
       ELSE /\ outbox' = [outbox EXCEPT ![c] = ConnectFailed(@, c, h)]
            /\ UNCHANGED <<vncClients, timers>>
    /\ UNCHANGED <<sock, received, forwarded, ticks>>
    /\ UNCHANGED <<serverClosed, hookVars, clientVars>>

\* One firing of the interval startScreenUpdates set for session sid.  A firing
\* that writes nothing (no registry entry, socket not open) changes no state and
\* is left out.
Tick(c, sid) ==
    /\ sid \in timers[c]
    /\ ticks < MaxTicks
    /\ vncClients[c] # 0 /\ sock[c] = "open"
    /\ ticks' = ticks + 1
    /\ outbox' = [outbox EXCEPT ![c] = SendScreenUpdate(@, c, sid, vncClients)]
    /\ UNCHANGED <<sock, vncClients, timers, pending, received, forwarded, connectDone>>
    /\ UNCHANGED <<serverClosed, hookVars, clientVars>>

\* The socket starts to go down (the peer's close frame, or a socket error: the
\* 'error' handler only logs): readyState leaves OPEN, 'close' is not emitted yet.
\* Only a suspended handler can run between this and 'close', so the step is
\* taken apart from OnClose only when there is one.
SocketClosing(c) ==
    /\ sock[c] = "open"
    /\ pending[c] # {}
    /\ sock' = [sock EXCEPT ![c] = "closing"]
    /\ UNCHANGED <<vncClients, timers, pending, received, forwarded, outbox,
                   connectDone, ticks>>
    /\ UNCHANGED <<serverClosed, hookVars, clientVars>>

\* A close listener that empties the registry.
OnCloseAll(c) ==
    /\ sock[c] \in {"open", "closing"}
    /\ sock' = [sock EXCEPT ![c] = "closed"]
    /\ vncClients' = [d \in AllConns |-> 0]
    /\ timers' = [timers EXCEPT ![c] = {}]
    /\ UNCHANGED <<pending, received, forwarded, outbox, connectDone, ticks>>
    /\ UNCHANGED <<serverClosed, hookVars, clientVars>>

\* 'close' is emitted: the listener of setupWebSocketHandlers deletes the
\* registry entry, and the listener of every startScreenUpdates that ran so far
\* clears its interval.  Suspended handlers are not cancelled.
OnClose(c) ==
    /\ sock[c] \in {"open", "closing"}
    /\ sock' = [sock EXCEPT ![c] = "closed"]
    /\ vncClients' = [vncClients EXCEPT ![c] = 0]
    /\ timers' = [timers EXCEPT ![c] = {}]
    /\ UNCHANGED <<pending, received, forwarded, outbox, connectDone, ticks>>
    /\ UNCHANGED <<serverClosed, hookVars, clientVars>>

\* close() of the relay: this.wss.close() and a log line.  The server stops
\* accepting; what happens to the accepted sockets depends on the ws package
\* the build resolves (the repository pins none): it leaves them alone, or
\* (terminate) destroys each of them, whose 'close' is then emitted later.  No
\* interval is cleared and the registry is not touched.
ServerClose(terminate) ==
    /\ ~serverClosed
    /\ serverClosed' = TRUE
    /\ sock' = IF terminate
               THEN [c \in AllConns |-> IF sock[c] = "open" THEN "closing" ELSE sock[c]]
               ELSE sock
    /\ UNCHANGED <<vncClients, timers, pending, received, forwarded, outbox,
                   connectDone, ticks>>
    /\ UNCHANGED <<hookVars, clientVars>>

RelayNext ==
    \/ \E c \in Conns : AcceptConnection(c)
    \/ \E c \in Conns, p \in Payloads : OnMessage(c, p)
    \/ \E c \in Conns, h \in 1..MaxMsgs, ok \in BOOLEAN : HandleVNCConnectResume(c, h, ok)
    \/ \E c \in Conns, sid \in 1..MaxMsgs : Tick(c, sid)
    \/ \E c \in Conns : SocketClosing(c)
    \/ \E c \in Conns : OnClose(c)

\* ws.on('message') while the relay is run with several sockets.
IsoOnMessage(c, p) ==
    /\ TotalReceived < IsoMsgs
    /\ OnMessage(c, p)

IsoRelayNext ==
    \/ \E c \in IsoConnSet : AcceptConnection(c)
    \/ \E c \in IsoConnSet, p \in Payloads : IsoOnMessage(c, p)
    \/ \E c \in IsoConnSet, h \in 1..MaxMsgs, ok \in BOOLEAN : HandleVNCConnectResume(c, h, ok)
    \/ \E c \in IsoConnSet, sid \in 1..MaxMsgs : Tick(c, sid)
    \/ \E c \in IsoConnSet : SocketClosing(c)
    \/ \E c \in IsoConnSet : OnClose(c)
    \/ \E terminate \in BOOLEAN : ServerClose(terminate)

(***************************************************************************)
(* Hook: useVNCWebSocket.                                                  *)
(*                                                                         *)
(* A WebSocket object occupies a slot of readyState from its creation      *)
(* until its close event has been delivered and ws.current refers to it no *)
(* more: after that nothing can observe it.  A timer occupies an id while  *)
(* it is pending.                                                          *)
(***************************************************************************)
Sockets == 1..MaxSockets
TimerIds == 1..MaxTimers

\* reconnectTimeout.current when it holds the handle of a timer that has fired
\* or was cleared: clearTimeout on it does nothing.
StaleHandle == -1

\* The types a server may send: those handleWebSocketMessage has a case for, and
\* the relay's welcome message, for which it has none (the default branch).
ServerTypes == {"connected", "vnc_connected", "vnc_streaming", "vnc_screen_update",
                "vnc_error", "error"}

\* The text a server puts in the data.error of its vnc_error and error messages.
ReportedError == "reported error"

MaxAttemptsText == "Max reconnection attempts reached"

\* What a callback did: kind of callback, for onmessage whether it ran for the
\* socket that ws.current refers to and the message type it received, the message type it
\* wrote to a socket ("none": nothing), for a close: its number in the row of
\* unplanned closures (0: the close was asked for by disconnect()) and the delay
\* of the timer it set (0: none).
Event(kind, cur, type, wrote, k, delay) ==
    [kind |-> kind, cur |-> cur, type |-> type, wrote |-> wrote, k |-> k, delay |-> delay]

HookInit ==
    /\ isConnected = FALSE
    /\ isStreaming = FALSE
    /\ connectionError = "null"
    /\ ws = 0
    /\ readyState = [s \in Sockets |-> "NONE"]
    /\ reconnectTimeout = 0
    /\ reconnectAttempts = 0
    /\ reconnectTimers = {}
    /\ lastEvent = Event("init", FALSE, "none", "none", 0, 0)
    /\ closures = 0
    /\ manualDisc = FALSE
    /\ exhausted = FALSE

\* readyState once ws.current stops referring to socket s: a socket whose close
\* event was delivered is gone.
Release(rs, s) == IF s # 0 /\ rs[s] = "CLOSED" THEN [rs EXCEPT ![s] = "NONE"] ELSE rs

FreeSlot(rs) == CHOOSE s \in Sockets : rs[s] = "NONE" /\ \A r \in Sockets : r < s => rs[r] # "NONE"

\* The guard at the top of connect(): return when ws.current is OPEN.
AlreadyConnected == ws # 0 /\ readyState[ws] = "OPEN"

\* connect(), called by `kind` (the caller, or a reconnect timer): unless
\* ws.current is OPEN, a new WebSocket replaces ws.current and gets the four
\* handlers.  The socket it replaces is neither closed nor stripped of its
\* handlers.
ConnectBody(kind) ==
    IF AlreadyConnected
    THEN /\ lastEvent' = Event(kind, FALSE, "none", "none", 0, 0)
         /\ UNCHANGED <<ws, readyState>>
    ELSE LET rs == Release(readyState, ws) IN
         /\ \E s \in Sockets : rs[s] = "NONE"
         /\ ws' = FreeSlot(rs)
         /\ readyState' = [rs EXCEPT ![FreeSlot(rs)] = "CONNECTING"]
         /\ lastEvent' = Event(kind, FALSE, "none", "none", 0, 0)

\* connect() called by the owner of the hook (or by the mount effect).
Connect ==
    /\ ConnectBody("connect")
    /\ manualDisc' = FALSE
    /\ exhausted' = FALSE
    /\ UNCHANGED <<isConnected, isStreaming, connectionError,
                   reconnectTimeout, reconnectAttempts, reconnectTimers, closures>>
    /\ UNCHANGED <<relayVars, clientVars>>

\* The callback of a reconnect timer: connect().
TimerFire(t) ==
    /\ t \in reconnectTimers
    /\ reconnectTimers' = reconnectTimers \ {t}
    /\ reconnectTimeout' = IF reconnectTimeout = t THEN StaleHandle ELSE reconnectTimeout
    /\ ConnectBody("timer")
    /\ UNCHANGED <<isConnected, isStreaming, connectionError,
                   reconnectAttempts, closures, manualDisc, exhausted>>
    /\ UNCHANGED <<relayVars, clientVars>>

\* What `ws.current?.send(...)` in onopen puts on the wire: ws.current is read
\* when the handler runs, it need not be the socket that opened.  send() on a
\* CONNECTING socket throws (the state updates before it stay), on a CLOSING or
\* CLOSED one it is dropped.
OpenWrites(rs) == IF ws # 0 /\ rs[ws] = "OPEN" THEN "vnc_connect" ELSE "none"

\* ws.onopen of socket s.
OnOpen(s) ==
    /\ readyState[s] = "CONNECTING"
    /\ readyState' = [readyState EXCEPT ![s] = "OPEN"]
    /\ isConnected' = TRUE
    /\ connectionError' = "null"
    /\ reconnectAttempts' = 0
    /\ lastEvent' = Event("open", FALSE, "none", OpenWrites(readyState'), 0, 0)
    /\ UNCHANGED <<isStreaming, ws, reconnectTimeout,
                   reconnectTimers, closures, manualDisc, exhausted>>
    /\ UNCHANGED <<relayVars, clientVars>>

\* handleWebSocketMessage: the new connectionError.
ErrorAfterMessage(t) ==
    CASE t = "vnc_connected" -> "null"
      [] t = "vnc_error" -> ReportedError     \* message.data.error || 'VNC error occurred'
      [] t = "error" -> ReportedError         \* message.data.error
      [] OTHER -> connectionError

\* handleWebSocketMessage: the new isStreaming.
StreamingAfterMessage(t) == IF t = "vnc_streaming" THEN TRUE ELSE isStreaming

\* ws.onmessage of socket s (message events are fired on OPEN sockets only) and
\* handleWebSocketMessage.
OnServerMessage(s, t) ==
    /\ readyState[s] = "OPEN"
    /\ connectionError' = ErrorAfterMessage(t)
    /\ isStreaming' = StreamingAfterMessage(t)
    /\ closures' = IF isStreaming' /\ ~isStreaming THEN 0 ELSE closures
    /\ lastEvent' = Event("message", s = ws, t, "none", 0, 0)
    /\ UNCHANGED <<isConnected, ws, readyState, reconnectTimeout, reconnectAttempts,
                   reconnectTimers, manualDisc, exhausted>>
    /\ UNCHANGED <<relayVars, clientVars>>

\* The delay of the timer onclose sets, from the incremented counter.
ReconnectDelay(attempt) == ReconnectDelayUnit * attempt

FreeTimerId == CHOOSE i \in TimerIds : i \notin reconnectTimers

\* The socket is closed: when the connection failed the browser fires ws.onerror
\* (connectionError = 'Connection failed') right before ws.onclose.  onclose does
\* not look at how the socket came to close: it schedules a reconnect whenever
\* the counter is below the maximum.
OnSocketClose(s, failed) ==
    /\ readyState[s] \in {"CONNECTING", "OPEN", "CLOSING"}
    /\ failed => readyState[s] # "CLOSING"
    /\ readyState' = [readyState EXCEPT ![s] = IF ws = s THEN "CLOSED" ELSE "NONE"]
    /\ isConnected' = FALSE
    /\ isStreaming' = FALSE
    /\ LET planned == readyState[s] = "CLOSING"
           k == IF planned THEN 0
                ELSE IF closures > maxReconnectAttempts THEN closures ELSE closures + 1
       IN  /\ closures' = IF planned THEN closures ELSE k
           /\ exhausted' = (exhausted \/ k > maxReconnectAttempts)
           /\ IF reconnectAttempts < maxReconnectAttempts
              THEN /\ Cardinality(reconnectTimers) < MaxTimers
                   /\ reconnectAttempts' = reconnectAttempts + 1
                   /\ reconnectTimeout' = FreeTimerId
                   /\ reconnectTimers' = reconnectTimers \cup {FreeTimerId}
                   /\ connectionError' = IF failed THEN "Connection failed" ELSE connectionError
                   /\ lastEvent' = Event("close", FALSE, "none", "none", k,
                                         ReconnectDelay(reconnectAttempts'))
              ELSE /\ connectionError' = MaxAttemptsText
                   /\ lastEvent' = Event("close", FALSE, "none", "none", k, 0)
                   /\ UNCHANGED <<reconnectAttempts, reconnectTimeout, reconnectTimers>>
    /\ UNCHANGED <<ws, manualDisc>>
    /\ UNCHANGED <<relayVars, clientVars>>

\* disconnect(): clearTimeout on the handle stored last, counter to 0, close()
\* on ws.current (the close event comes later, its handlers stay), state reset.
Disconnect ==
    /\ reconnectTimers' = reconnectTimers \ {reconnectTimeout}
    /\ reconnectTimeout' = IF reconnectTimeout = 0 THEN 0 ELSE StaleHandle
    /\ reconnectAttempts' = 0
    /\ IF ws # 0
       THEN /\ readyState' = [Release(readyState, ws) EXCEPT ![ws] =
                                 IF @ \in {"CONNECTING", "OPEN"} THEN "CLOSING" ELSE @]
            /\ ws' = 0
       ELSE UNCHANGED <<readyState, ws>>
    /\ isConnected' = FALSE
    /\ isStreaming' = FALSE
    /\ connectionError' = "null"
    /\ closures' = 0
    /\ manualDisc' = TRUE
    /\ exhausted' = FALSE
    /\ lastEvent' = Event("disconnect", FALSE, "none", "none", 0, 0)
    /\ UNCHANGED <<relayVars, clientVars>>

\* The guard of sendMouseEvent, sendKeyboardEvent and requestScreen.
CanSend == ws # 0 /\ readyState[ws] = "OPEN" /\ isConnected

\* sendMouseEvent / sendKeyboardEvent / requestScreen: write the message of
\* type t when the guard holds, else do nothing.
SendCall(kind, t) ==
    /\ lastEvent' = Event(kind, FALSE, "none", IF CanSend THEN t ELSE "none", 0, 0)
    /\ UNCHANGED <<isConnected, isStreaming, connectionError, ws,
                   readyState, reconnectTimeout, reconnectAttempts, reconnectTimers,
                   closures, manualDisc, exhausted>>
    /\ UNCHANGED <<relayVars, clientVars>>

SendMouseEvent == SendCall("sendMouseEvent", "vnc_mouse_event")
SendKeyboardEvent == SendCall("sendKeyboardEvent", "vnc_keyboard_event")
RequestScreen == SendCall("requestScreen", "vnc_request_screen")

HookStep ==
    \/ Connect
    \/ Disconnect
    \/ \E t \in reconnectTimers : TimerFire(t)
    \/ \E s \in Sockets : OnOpen(s)
    \/ \E s \in Sockets, t \in ServerTypes : OnServerMessage(s, t)
    \/ \E s \in Sockets, failed \in BOOLEAN : OnSocketClose(s, failed)
    \/ SendMouseEvent
    \/ SendKeyboardEvent
    \/ RequestScreen

(***************************************************************************)
(* VNCClient (src/src/utils/vnc-client.ts).                                *)
(*                                                                         *)
(* As in the hook, a WebSocket object occupies a slot from its creation    *)
(* until its close event has been delivered and this.socket refers to it   *)
(* no more.  The canvas, binary screen updates and the 10 s timeout of      *)
(* connect() (it only rejects the promise) touch none of the state below.  *)
(***************************************************************************)
ClientSockets == 1..MaxClientSockets

\* The types processMessage has a case for.
ClientServerTypes == {"authentication_success", "authentication_failed",
                      "desktop_ready", "error"}

\* What a callback did: kind of callback, the message type it received, what
\* it wrote to a socket ("none": nothing) and the event it emitted.
ClientEvent(kind, type, wrote, emitted) ==
    [kind |-> kind, type |-> type, wrote |-> wrote, emitted |-> emitted]

\* The state the constructor sets.
InitialState ==
    [isConnected |-> FALSE, isStreaming |-> FALSE,
     isAuthenticated |-> FALSE, error |-> "undefined"]

\* A client constructed with a config without password.
ClientInit ==
    /\ config = [password |-> FALSE]
    /\ state = InitialState
    /\ socket = 0
    /\ socketState = [s \in ClientSockets |-> "NONE"]
    /\ clientEvent = ClientEvent("init", "none", "none", "none")

\* constructor: a new VNCClient, with or without a password in its config, in
\* the place of one that has no socket left.
NewClient(password) ==
    /\ socket = 0
    /\ \A s \in ClientSockets : socketState[s] = "NONE"
    /\ config' = [password |-> password]
    /\ state' = InitialState
    /\ clientEvent' = ClientEvent("new", "none", "none", "none")
    /\ UNCHANGED <<socket, socketState>>
    /\ UNCHANGED <<relayVars, hookVars>>

\* What `this.socket?.send(m)` puts on the wire, given the readyState rs:
\* nothing when this.socket is null, CLOSING or CLOSED (dropped) or CONNECTING
\* (send throws).
ClientWrites(rs, m) == IF socket # 0 /\ rs[socket] = "OPEN" THEN m ELSE "none"

\* send() on a socket that is still CONNECTING throws InvalidStateError: what
\* follows the call in the callback does not run.
SendThrows(rs) == socket # 0 /\ rs[socket] = "CONNECTING"

\* connect(): a new WebSocket replaces this.socket, whatever the state of the
\* one it held, and gets the four handlers.
ClientConnect ==
    LET rs == Release(socketState, socket) IN
    /\ \E s \in ClientSockets : rs[s] = "NONE"
    /\ LET n == CHOOSE s \in ClientSockets :
                    rs[s] = "NONE" /\ \A r \in ClientSockets : r < s => rs[r] # "NONE"
       IN  /\ socket' = n
           /\ socketState' = [rs EXCEPT ![n] = "CONNECTING"]
    /\ clientEvent' = ClientEvent("connect", "none", "none", "none")
    /\ UNCHANGED <<config, state>>
    /\ UNCHANGED <<relayVars, hookVars>>

\* authenticate(), called by onopen: with a password the password is sent,
\* without one the client marks itself authenticated and calls
\* startDesktopSession.
Authenticate(rs) ==
    IF config.password
    THEN [auth |-> state.isAuthenticated, wrote |-> ClientWrites(rs, "password")]
    ELSE [auth |-> TRUE, wrote |-> ClientWrites(rs, "start_session")]

\* socket.onopen of socket s: isConnected, authenticate(), then the connected
\* event unless the send threw.
ClientOnOpen(s) ==
    /\ socketState[s] = "CONNECTING"
    /\ socketState' = [socketState EXCEPT ![s] = "OPEN"]
    /\ state' = [state EXCEPT !.isConnected = TRUE,
                              !.isAuthenticated = Authenticate(socketState').auth]
    /\ clientEvent' = ClientEvent("open", "none", Authenticate(socketState').wrote,
                                  IF SendThrows(socketState') THEN "none"
                                  ELSE "connected")
    /\ UNCHANGED <<config, socket>>
    /\ UNCHANGED <<relayVars, hookVars>>

\* A processMessage that starts the session on any answer to the password.
ProcessMessageEager(t) ==
    CASE t \in {"authentication_success", "authentication_failed"} ->
            [state |-> [state EXCEPT !.isAuthenticated = TRUE],
             wrote |-> ClientWrites(socketState, "start_session"),
             emitted |-> "none"]
      [] t = "desktop_ready" ->
            [state |-> [state EXCEPT !.isStreaming = TRUE],
             wrote |-> "none", emitted |-> "streaming_started"]
      [] OTHER ->
            [state |-> [state EXCEPT !.error = ReportedError],
             wrote |-> "none", emitted |-> "error"]

\* processMessage: the new state, what is written and what is emitted.
ProcessMessage(t) ==
    CASE t = "authentication_success" ->
            [state |-> [state EXCEPT !.isAuthenticated = TRUE],
             wrote |-> ClientWrites(socketState, "start_session"),
             emitted |-> "none"]
      [] t = "authentication_failed" ->
            [state |-> [state EXCEPT !.error = "Authentication failed"],
             wrote |-> "none", emitted |-> "error"]
      [] t = "desktop_ready" ->
            [state |-> [state EXCEPT !.isStreaming = TRUE],
             wrote |-> "none", emitted |-> "streaming_started"]
      [] t = "error" ->
            [state |-> [state EXCEPT !.error = ReportedError],
             wrote |-> "none", emitted |-> "error"]

\* socket.onmessage of socket s with a JSON text of type t (message events are
\* fired on OPEN sockets only), handleMessage and processMessage.
ClientOnMessage(s, t) ==
    /\ socketState[s] = "OPEN"
    /\ state' = ProcessMessage(t).state
    /\ clientEvent' = ClientEvent("message", t, ProcessMessage(t).wrote,
                                  ProcessMessage(t).emitted)
    /\ UNCHANGED <<config, socket, socketState>>
    /\ UNCHANGED <<relayVars, hookVars>>

\* The socket is closed: when the connection failed socket.onerror runs first
\* (state.error), then socket.onclose.
ClientOnClose(s, failed) ==
    /\ socketState[s] \in {"CONNECTING", "OPEN", "CLOSING"}
    /\ socketState' = [socketState EXCEPT ![s] = IF socket = s THEN "CLOSED" ELSE "NONE"]
    /\ state' = [state EXCEPT !.isConnected = FALSE,
                              !.isStreaming = FALSE,
                              !.error = IF failed THEN "Connection failed" ELSE @]
    /\ clientEvent' = ClientEvent("close", "none", "none", "disconnected")
    /\ UNCHANGED <<config, socket>>
    /\ UNCHANGED <<relayVars, hookVars>>

\* disconnect(): close() on this.socket (its handlers stay), this.socket to
\* null, the three flags to false.
ClientDisconnect ==
    /\ IF socket # 0
       THEN /\ socketState' = [Release(socketState, socket) EXCEPT ![socket] =
                                  IF @ \in {"CONNECTING", "OPEN"} THEN "CLOSING" ELSE @]
            /\ socket' = 0
       ELSE UNCHANGED <<socketState, socket>>
    /\ state' = [state EXCEPT !.isConnected = FALSE,
                              !.isStreaming = FALSE,
                              !.isAuthenticated = FALSE]
    /\ clientEvent' = ClientEvent("disconnect", "none", "none", "none")
    /\ UNCHANGED config
    /\ UNCHANGED <<relayVars, hookVars>>

\* sendMouseEvent / sendKeyboardEvent of the class: write when
\* state.isStreaming and this.socket is set.
ClientSend(kind, t) ==
    /\ clientEvent' = ClientEvent(kind, "none",
                                  IF state.isStreaming THEN ClientWrites(socketState, t)
                                  ELSE "none",
                                  "none")
    /\ UNCHANGED <<config, state, socket, socketState>>
    /\ UNCHANGED <<relayVars, hookVars>>

ClientStep ==
    \/ \E password \in BOOLEAN : NewClient(password)
    \/ ClientConnect
    \/ ClientDisconnect
    \/ \E s \in ClientSockets : ClientOnOpen(s)
    \/ \E s \in ClientSockets, t \in ClientServerTypes : ClientOnMessage(s, t)
    \/ \E s \in ClientSockets, failed \in BOOLEAN : ClientOnClose(s, failed)
    \/ ClientSend("sendMouseEvent", "mouse_event")
    \/ ClientSend("sendKeyboardEvent", "keyboard_event")

Init == RelayInit /\ HookInit /\ ClientInit

\* The relay on its own.
Next == RelayNext

Spec == Init /\ [][Next]_vars

\* The hook on its own.
HookNext == HookStep

HookSpec == Init /\ [][HookNext]_vars

\* The relay with several sockets and its shutdown, on fewer messages.
IsoNext == IsoRelayNext

IsoSpec == Init /\ [][IsoNext]_vars

\* The VNCClient class on its own.
ClientNext == ClientStep

ClientSpec == Init /\ [][ClientNext]_vars

(***************************************************************************)
(* Relay: properties.                                                      *)
(***************************************************************************)
\* The positions of log q that hold a message answering client message i.
AnswersTo(q, i) == {k \in 1..Len(q) : q[k].re = i}

\* The vnc_connected / vnc_error replies written for the vnc_connect of index h.
ConnectReplies(c, h) ==
    {k \in AnswersTo(outbox[c], h) : outbox[c][k].type \in {"vnc_connected", "vnc_error"}}

\* C3, as claimed: every vnc_connect that was handled to its end got exactly one
\* vnc_connected or vnc_error on its connection, also when the socket closed
\* while the session was being opened.
C3_ExactlyOneReplyAlways ==
    \A c \in Conns : \A d \in connectDone[c] :
        Cardinality(ConnectReplies(c, d.idx)) = 1

\* C3, amended: a vnc_connect never gets more than one vnc_connected / vnc_error;
\* it gets exactly one when the socket is still open as the backend open ends,
\* and none when the socket is no longer open by then or while the open is
\* still awaited.
C3_OneReplyWhileOpen ==
    \A c \in Conns :
        /\ \A d \in connectDone[c] :
              Cardinality(ConnectReplies(c, d.idx)) = IF d.wasOpen THEN 1 ELSE 0
        /\ \A h \in pending[c] : ConnectReplies(c, h) = {}

\* A failed open answered with vnc_error on an open socket, and an open that
\* ended after its socket had gone.
C3_Witness ==
    /\ \E c \in Conns : \E d \in connectDone[c] :
          /\ d.wasOpen
          /\ \E k \in ConnectReplies(c, d.idx) : outbox[c][k].type = "vnc_error"
    /\ \E c \in Conns : \E d \in connectDone[c] : ~d.wasOpen

\* The calls the input events of a received log ask for, in arrival order: one
\* per vnc_mouse_event / vnc_keyboard_event that arrived while a session was
\* registered, on that session.
RECURSIVE ExpectedCalls(_, _)
ExpectedCalls(log, n) ==
    IF n = 0 THEN <<>>
    ELSE LET r == log[n]
             before == ExpectedCalls(log, n - 1)
         IN  IF r.type \in InputTypes /\ r.sess # 0
             THEN Append(before,
                         [sid |-> r.sess,
                          call |-> IF r.type = "vnc_mouse_event"
                                   THEN "sendMouseEvent" ELSE "sendKeyboardEvent",
                          ev |-> n])
             ELSE before

\* C4: the calls made on a connection's session backend are the input events
\* received on it while it had a session: each once, in arrival order.
C4_ForwardedInArrivalOrder ==
    \A c \in Conns : forwarded[c] = ExpectedCalls(received[c], Len(received[c]))

\* A pointer event and a key event were forwarded on the same connection.
C4_Witness ==
    \E c \in Conns :
        /\ Len(forwarded[c]) >= 2
        /\ {forwarded[c][k].call : k \in 1..Len(forwarded[c])}
              = {"sendMouseEvent", "sendKeyboardEvent"}

\* C5, as claimed: the handling of a message does not begin before the handling
\* of every earlier message of the connection has ended, so a suspended
\* vnc_connect is always the last message that arrived.
C5_StrictlySequential ==
    \A c \in Conns : \A h \in pending[c] : h = Len(received[c])

\* C8, as claimed: the registry holds no entry for a socket whose close has been
\* handled.
C8_NoSessionAfterClose ==
    \A c \in Conns : sock[c] = "closed" => vncClients[c] = 0

\* C9, as claimed: once the close of a socket has been handled no update
\* interval of that connection is active.
C9_NoTimerAfterClose ==
    \A c \in Conns : sock[c] = "closed" => timers[c] = {}

\* C10: when a message of unknown type arrives, that step writes the one reply
\* error{"Unknown message type: <type>"} and leaves the socket open and the
\* connection's session, timers, suspended handlers and backend calls as they
\* were; no other step ever writes a message answering it.
C10_Step ==
    \A c \in Conns :
        LET n == Len(received[c]) IN
        IF Len(received'[c]) = n + 1 /\ received'[c][n + 1].type \in ClientTypes \ KnownTypes
        THEN /\ outbox'[c] = Append(outbox[c],
                    Msg("error", n + 1, 0,
                        <<"Unknown message type: ", received'[c][n + 1].type>>))
             /\ sock'[c] = "open"
             /\ vncClients'[c] = vncClients[c]
             /\ timers'[c] = timers[c]
             /\ pending'[c] = pending[c]
             /\ forwarded'[c] = forwarded[c]
        ELSE \A i \in 1..n :
                received[c][i].type \in ClientTypes \ KnownTypes
                    => Cardinality(AnswersTo(outbox'[c], i))
                         = Cardinality(AnswersTo(outbox[c], i))

C10_UnknownTypeReply == [][C10_Step]_vars

\* An unknown message was answered, and a vnc_connect that arrived after it on
\* the same connection was answered with vnc_connected.
C10_Witness ==
    \E c \in Conns : \E i, j \in 1..Len(received[c]) :
        /\ i < j
        /\ received[c][i].type = "bogus"
        /\ received[c][j].type = "vnc_connect"
        /\ \E k \in AnswersTo(outbox[c], i) : outbox[c][k].type = "error"
        /\ \E k \in AnswersTo(outbox[c], j) : outbox[c][k].type = "vnc_connected"

\* C11: when a malformed payload arrives, that step writes one error reply for
\* it and leaves the socket open and the connection's session, timers,
\* suspended handlers and backend calls as they were; no other step writes a
\* message answering it.
C11_Step ==
    \A c \in Conns :
        LET n == Len(received[c]) IN
        IF Len(received'[c]) = n + 1 /\ received'[c][n + 1].type \in MalformedPayloads
        THEN /\ Len(outbox'[c]) = Len(outbox[c]) + 1
             /\ SubSeq(outbox'[c], 1, Len(outbox[c])) = outbox[c]
             /\ outbox'[c][Len(outbox'[c])].type = "error"
             /\ outbox'[c][Len(outbox'[c])].re = n + 1
             /\ sock[c] = "open" /\ sock'[c] = "open"
             /\ vncClients'[c] = vncClients[c]
             /\ timers'[c] = timers[c]
             /\ pending'[c] = pending[c]
             /\ forwarded'[c] = forwarded[c]
        ELSE \A i \in 1..n :
                received[c][i].type \in MalformedPayloads
                    => Cardinality(AnswersTo(outbox'[c], i))
                         = Cardinality(AnswersTo(outbox[c], i))

C11_MalformedReply == [][C11_Step]_vars

\* Text that is not JSON was answered with an error on a connection that has a
\* session, and an input event that arrived after it was forwarded to that
\* session.
C11_Witness ==
    \E c \in Conns : \E i, j \in 1..Len(received[c]) :
        /\ i < j
        /\ received[c][i].type = NotJSON
        /\ received[c][i].sess # 0
        /\ \E k \in AnswersTo(outbox[c], i) : outbox[c][k].type = "error"
        /\ \E k \in 1..Len(forwarded[c]) : forwarded[c][k].ev = j

\* An input event arriving on a connection without a session: no backend call
\* is made, the one message written is error{text} answering it, and the socket
\* stays open.
C12_StepWith(text) ==
    \A c \in Conns :
        LET n == Len(received[c]) IN
        (/\ Len(received'[c]) = n + 1
         /\ received'[c][n + 1].type \in InputTypes
         /\ vncClients[c] = 0)
            => /\ forwarded' = forwarded
               /\ outbox'[c] = Append(outbox[c], Msg("error", n + 1, 0, text))
               /\ sock'[c] = "open"

\* C12, as claimed: the error text is "Not connected".
C12_NotConnectedText == [][C12_StepWith(<<"Not connected">>)]_vars

\* C12, amended: the error text is "Not connected to VNC".
C12_NotConnectedToVNC == [][C12_StepWith(<<"Not connected to VNC">>)]_vars

\* A pointer event and a key event arrived on connections without a session and
\* were answered with an error, none was forwarded.
C12_Witness ==
    /\ \A t \in InputTypes : \E c \in Conns : \E i \in 1..Len(received[c]) :
          /\ received[c][i].type = t
          /\ received[c][i].sess = 0
          /\ \E k \in AnswersTo(outbox[c], i) : outbox[c][k].type = "error"
    /\ \A c \in Conns : forwarded[c] = <<>>

\* The step in which the backend open of a vnc_connect fails: the registry
\* entry, the intervals and the socket of the connection stay as they were, and
\* the one message written is vnc_error answering that vnc_connect; it is
\* written whatever the socket's state (always), or only on an open socket.
C13_StepWith(always) ==
    \A c \in Conns : \A d \in connectDone'[c] \ connectDone[c] :
        ~d.ok =>
            /\ vncClients'[c] = vncClients[c]
            /\ timers'[c] = timers[c]
            /\ sock'[c] = sock[c]
            /\ outbox'[c] =
                  IF always \/ sock[c] = "open"
                  THEN Append(outbox[c],
                              Msg("vnc_error", d.idx, 0, <<"VNC connection failed">>))
                  ELSE outbox[c]

\* C13, as claimed: a failed backend open is always answered with vnc_error.
C13_FailureAlwaysAnswered == [][C13_StepWith(TRUE)]_vars

\* C13, amended: a failed backend open is answered with vnc_error when the
\* socket is still open, and with nothing when it is not; in both cases no
\* session is registered, no interval is started and the relay does not close
\* the socket.
C13_FailureAnsweredWhileOpen == [][C13_StepWith(FALSE)]_vars

\* On one open connection a vnc_connect failed and was answered with vnc_error,
\* and a later vnc_connect was answered with vnc_connected and has its session
\* registered.
C13_Witness ==
    \E c \in Conns : \E d, e \in connectDone[c] :
        /\ ~d.ok /\ d.wasOpen /\ e.ok /\ d.idx < e.idx
        /\ \E k \in ConnectReplies(c, d.idx) : outbox[c][k].type = "vnc_error"
        /\ \E k \in ConnectReplies(c, e.idx) : outbox[c][k].type = "vnc_connected"
        /\ sock[c] = "open"
        /\ vncClients[c] = e.idx

\* C19, as claimed: the pixel payload of every vnc_screen_update the relay
\* writes has 4 x width x height bytes.
C19_PayloadSize ==
    \A c \in Conns : \A k \in 1..Len(outbox[c]) :
        outbox[c][k].type = "vnc_screen_update"
            => outbox[c][k].data.bytes
                 = 4 * outbox[c][k].data.width * outbox[c][k].data.height

\* C20, as claimed: a connection never has more than one update interval
\* running, so one period brings one vnc_screen_update.
C20_OneProducerPerConnection ==
    \A c \in Conns : Cardinality(timers[c]) <= 1

\* C21, as claimed: when the first screen update of a session cannot be written
\* because the socket is no longer open, the relay gives the connection up: the
\* socket is closed, no interval of the connection is left running and its
\* registry entry is gone.
C21_Step ==
    \A c \in Conns : \A d \in connectDone'[c] \ connectDone[c] :
        (d.ok /\ ~d.wasOpen)
            => /\ sock'[c] = "closed"
               /\ timers'[c] = {}
               /\ vncClients'[c] = 0

C21_SendFailureCloses == [][C21_Step]_vars

\* C22, as claimed: once close() of the relay has returned no update interval
\* of any connection is active.
C22_NoTimerAfterShutdown ==
    serverClosed => \A c \in AllConns : timers[c] = {}

\* C23: when a vnc_request_screen arrives on a connection with a registered
\* session, that step writes one vnc_screen_update answering it and leaves the
\* connection's intervals and the tick count as they were; on a connection
\* without a session the step writes one error answering it and no update; no
\* other step writes a message answering the request.
C23_Step ==
    \A c \in Conns :
        LET n == Len(received[c]) IN
        IF Len(received'[c]) = n + 1 /\ received'[c][n + 1].type = "vnc_request_screen"
        THEN /\ Len(outbox'[c]) = Len(outbox[c]) + 1
             /\ SubSeq(outbox'[c], 1, Len(outbox[c])) = outbox[c]
             /\ outbox'[c][Len(outbox'[c])].re = n + 1
             /\ outbox'[c][Len(outbox'[c])].type =
                    IF vncClients[c] # 0 THEN "vnc_screen_update" ELSE "error"
             /\ timers'[c] = timers[c]
             /\ ticks' = ticks
        ELSE \A i \in 1..n :
                received[c][i].type = "vnc_request_screen"
                    => Cardinality(AnswersTo(outbox'[c], i))
                         = Cardinality(AnswersTo(outbox[c], i))

C23_RequestScreenOnce == [][C23_Step]_vars

\* A request on a connection with a session was answered with a screen update
\* and the interval wrote its own update after it; a request on a connection
\* without a session was answered with an error.
C23_Witness ==
    \E c \in Conns : \E i, j \in 1..Len(received[c]) :
        /\ received[c][i].type = "vnc_request_screen" /\ received[c][i].sess = 0
        /\ \E k \in AnswersTo(outbox[c], i) : outbox[c][k].type = "error"
        /\ received[c][j].type = "vnc_request_screen" /\ received[c][j].sess # 0
        /\ \E k \in AnswersTo(outbox[c], j) :
              /\ outbox[c][k].type = "vnc_screen_update"
              /\ \E m \in (k + 1)..Len(outbox[c]) :
                    outbox[c][m].type = "vnc_screen_update" /\ outbox[c][m].re = 0

\* The positions of log q that hold a connected acknowledgement.
Acks(q) == {k \in 1..Len(q) : q[k].type = "connected"}

\* C24: nothing is written for a socket before it is accepted; the step that
\* accepts it writes the connected acknowledgement as the first message of the
\* connection and leaves it without session and without interval; every later
\* step only appends to what was written and adds no acknowledgement.
C24_Step ==
    \A c \in Conns :
        /\ sock[c] = "none" => outbox[c] = <<>>
        /\ IF sock[c] = "none" /\ sock'[c] # "none"
           THEN /\ outbox'[c] = <<Msg("connected", 0, 0, <<>>)>>
                /\ vncClients'[c] = 0
                /\ timers'[c] = {}
                /\ pending'[c] = {}
           ELSE /\ Len(outbox'[c]) >= Len(outbox[c])
                /\ SubSeq(outbox'[c], 1, Len(outbox[c])) = outbox[c]
                /\ Acks(outbox'[c]) = Acks(outbox[c])

C24_AckFirstAndOnce == [][C24_Step]_vars

\* A connection has completed a vnc_connect and got screen updates: its first
\* message is the acknowledgement, and it is the only one.
C24_Witness ==
    \E c \in Conns :
        /\ Acks(outbox[c]) = {1}
        /\ \E k \in 2..Len(outbox[c]) : outbox[c][k].type = "vnc_connected"
        /\ \E k \in 2..Len(outbox[c]) : outbox[c][k].type = "vnc_screen_update"

\* Everything the relay holds for connection c or has done on it: its socket,
\* session, intervals, running vnc_connect handlers, the messages received on
\* it, the calls made on its session and the messages written to it.
C25_ConnState(c) ==
    <<sock[c], vncClients[c], timers[c], pending[c], received[c], forwarded[c], outbox[c]>>

\* C25: a step of one connection (a message, the end of a vnc_connect, an
\* interval firing, a close) changes nothing of any other connection; a call is
\* made on the session of a connection, and a message is written to it, only in
\* a step that changes no other connection.  The shutdown of the whole server
\* is not a step of one connection.
C25_Step ==
    serverClosed' = serverClosed =>
        \A a, b \in IsoConnSet :
            (a # b /\ C25_ConnState(a)' # C25_ConnState(a))
                => C25_ConnState(b)' = C25_ConnState(b)

C25_Isolation == [][C25_Step]_vars

\* Connection b holds a session and an interval while an input event arrived
\* on connection a, which has none: a got the error, b's session got no call
\* and b's stream holds only its own acknowledgement, reply and update.
C25_Witness ==
    \E a, b \in IsoConnSet :
        /\ a # b
        /\ vncClients[b] # 0 /\ timers[b] # {}
        /\ vncClients[a] = 0
        /\ \E k \in 1..Len(received[a]) : received[a][k].type \in InputTypes
        /\ \E k \in 1..Len(outbox[a]) :
              outbox[a][k].type = "error" /\ outbox[a][k].text = <<"Not connected to VNC">>
        /\ forwarded[b] = <<>>
        /\ \A k \in 1..Len(outbox[b]) : outbox[b][k].type # "error"

\* C28: on every connection a vnc_screen_update, periodic or requested, comes
\* after a vnc_connected reply on that connection.
C28_NoUpdateBeforeConnected ==
    \A c \in Conns : \A k \in 1..Len(outbox[c]) :
        outbox[c][k].type = "vnc_screen_update"
            => \E j \in 1..(k - 1) : outbox[c][j].type = "vnc_connected"

\* A connection asked for the screen before its vnc_connect and got the error,
\* then connected and got an update from the producer and one on request.
C28_Witness ==
    \E c \in Conns :
        \E i, j, k, l \in 1..Len(outbox[c]) :
            /\ i < j /\ j < k /\ j < l /\ k # l
            /\ outbox[c][i].type = "error" /\ outbox[c][i].text = <<"Not connected to VNC">>
            /\ received[c][outbox[c][i].re].type = "vnc_request_screen"
            /\ outbox[c][j].type = "vnc_connected"
            /\ outbox[c][k].type = "vnc_screen_update" /\ outbox[c][k].data = MockUpdate
            /\ outbox[c][l].type = "vnc_screen_update" /\ outbox[c][l].data = ScreenData

(***************************************************************************)
(* Hook: properties.                                                       *)
(***************************************************************************)
SendKinds == {"sendMouseEvent", "sendKeyboardEvent", "requestScreen"}

\* C1, as claimed: from disconnect() until the caller's next connect() no
\* reconnect timer is pending and no timer calls connect().
C1_NoReconnectAfterDisconnect ==
    manualDisc => (reconnectTimers = {} /\ lastEvent.kind # "timer")

\* C2, as claimed: the k-th unplanned closure in a row (k = 1..5) sets one timer
\* of 2000 ms x k; the 6th sets none and leaves connectionError = "Max
\* reconnection attempts reached", and from then on no timer calls connect()
\* until the caller calls connect().
C2_BackoffSequence ==
    /\ (lastEvent.kind = "close" /\ lastEvent.k \in 1..maxReconnectAttempts)
          => lastEvent.delay = ReconnectDelayUnit * lastEvent.k
    /\ (lastEvent.kind = "close" /\ lastEvent.k > maxReconnectAttempts)
          => (lastEvent.delay = 0 /\ connectionError = MaxAttemptsText)
    /\ exhausted => lastEvent.kind # "timer"

\* C6, as claimed: once vnc_connected has been received on the open socket the
\* hook owns (on which onopen sent vnc_connect), the hook is streaming.
C6_StreamingAfterConnected ==
    (/\ lastEvent.kind = "message"
     /\ lastEvent.type = "vnc_connected"
     /\ lastEvent.cur)
        => isStreaming

\* C7, as claimed: sendMouseEvent, sendKeyboardEvent and requestScreen write to
\* the socket only while the hook is streaming.
C7_SendOnlyWhenStreaming ==
    (lastEvent.kind \in SendKinds /\ lastEvent.wrote # "none") => isStreaming

\* C14, as claimed: connect(), called by the owner or by a reconnect timer while
\* ws.current is a socket that is still connecting, or is open with the hook
\* streaming, creates no socket, leaves ws.current as it is and writes nothing.
C14_Step ==
    (/\ lastEvent'.kind \in {"connect", "timer"}
     /\ ws # 0
     /\ \/ readyState[ws] = "CONNECTING"
        \/ readyState[ws] = "OPEN" /\ isStreaming)
        => /\ ws' = ws
           /\ readyState' = readyState
           /\ lastEvent'.wrote = "none"

C14_ConnectNoOp == [][C14_Step]_vars

\* C15, as claimed: after disconnect() ws.current is null, isConnected and
\* isStreaming are false and no reconnect timer is pending, and a disconnect()
\* that follows a disconnect() changes nothing.
C15_Step ==
    lastEvent'.kind = "disconnect"
        => /\ ws' = 0
           /\ ~isConnected'
           /\ ~isStreaming'
           /\ reconnectTimers' = {}
           /\ lastEvent.kind = "disconnect" => UNCHANGED hookVars

C15_DisconnectIdempotent == [][C15_Step]_vars

\* C16, as claimed: when the close event of the open socket the hook owns is
\* delivered while the hook is streaming (a closure disconnect() did not ask
\* for), that one onclose call leaves isConnected and isStreaming false and
\* sets exactly one reconnect timer, with the delay of attempt 1, 2000 ms.
C16_Step ==
    \A s \in Sockets :
        (/\ isStreaming
         /\ ws = s
         /\ readyState[s] = "OPEN"
         /\ readyState'[s] = "CLOSED")
            => /\ lastEvent'.kind = "close"
               /\ ~isConnected'
               /\ ~isStreaming'
               /\ reconnectTimers \subseteq reconnectTimers'
               /\ Cardinality(reconnectTimers' \ reconnectTimers) = 1
               /\ lastEvent'.delay = ReconnectDelayUnit

C16_UnexpectedCloseWhileStreaming == [][C16_Step]_vars

\* The connection state the hook exposes, apart from connectionError.
ConnectionState(c, st, rs, w) == <<c, st, IF w = 0 THEN "NONE" ELSE rs[w]>>

\* C17, as claimed: a vnc_error or error received on the hook's socket sets
\* connectionError to the reported text; when the hook is connected and waits
\* for its session the connection state changes (to the error state), in any
\* other state it stays as it is.
C17_Step ==
    (/\ lastEvent'.kind = "message"
     /\ lastEvent'.type \in {"vnc_error", "error"}
     /\ lastEvent'.cur)
        => /\ connectionError' = ReportedError
           /\ IF isConnected /\ ~isStreaming
              THEN ConnectionState(isConnected', isStreaming', readyState', ws')
                     # ConnectionState(isConnected, isStreaming, readyState, ws)
              ELSE ConnectionState(isConnected', isStreaming', readyState', ws')
                     = ConnectionState(isConnected, isStreaming, readyState, ws)

C17_ErrorTransition == [][C17_Step]_vars

\* C18, as claimed: reconnectAttempts.current goes back to 0 only in
\* disconnect() or as the hook becomes streaming, so a closure that is the 6th
\* unplanned one in a row, with no streaming in between, sets no timer.
C18_Step ==
    /\ (reconnectAttempts # 0 /\ reconnectAttempts' = 0)
          => \/ lastEvent'.kind = "disconnect"
             \/ isStreaming' /\ ~isStreaming
    /\ (lastEvent'.kind = "close" /\ lastEvent'.k > maxReconnectAttempts)
          => reconnectTimers' = reconnectTimers

C18_CounterResetOnlyByStreaming == [][C18_Step]_vars

\* C26: the hook owns at most one socket that is connecting or open.
C26_AtMostOneLiveSocket ==
    Cardinality({s \in Sockets : readyState[s] \in {"CONNECTING", "OPEN"}}) <= 1

\* C27: at most one reconnect timer is pending, and reconnectTimeout.current is
\* its handle.
C27_OneTimerAndHandle ==
    /\ Cardinality(reconnectTimers) <= 1
    /\ reconnectTimers # {} => reconnectTimeout \in reconnectTimers

\* C29: a VNCClient that is streaming is connected.
C29_StreamingImpliesConnected == state.isStreaming => state.isConnected

============================================================================
